---- MODULE Spec2Model ----
(***************************************************************************)
(* Credential lifecycle and template export of prompts-lab-backend.        *)
(*                                                                         *)
(* Strings are modelled as sequences of one-character atoms, so that       *)
(* String.split and string concatenation are computed and not assumed.     *)
(* The JavaScript values undefined and null, and a query parameter that    *)
(* is not a string (an array or an object), are the marker sequences       *)
(* Undefined, Null and NonString.                                          *)
(***************************************************************************)
EXTENDS Integers, Sequences, FiniteSets, TLC

\* ------------------------------------------------------------------ bounds
\* Number of OAuth callback requests the provider (or anyone) sends.
NumCallbacks == 2
\* Largest value of the wall clock.
MaxTime == 1
\* Number of DELETE /disconnect requests.
MaxDisconnects == 1
\* Number of POST /:id/export requests.
NumExports == 1
\* Number of direct incrementUsageCount calls.
NumIncrements == 3
\* Number of status requests.
NumStatus == 1
\* Number of direct removeIntegration calls.
NumRemovals == 2
\* Largest number of entries of the variables of an export.
MaxVariables == 2
\* Number of direct encryptions.
NumEncryptions == 2
\* Number of requests given to the templates router.
NumRequests == 2

\* ------------------------------------------------------------------ values
Undefined == <<"#undefined">>
Null == <<"#null">>
NonString == <<"#nonstring">>
EmptyString == <<>>

\* The process-wide symmetric key (env.ENCRYPTION_KEY).
ENCRYPTION_KEY == "K"

\* Rows of the profiles table: the registered users.
Profiles == {<<"a">>, <<"b">>}
\* Strings with the syntax of a UUID (what a uuid column accepts).
UuidSyntax == Profiles \cup {<<"c">>}

CallbackIds == 1..NumCallbacks
ExportIds == 1..NumExports
IncrementIds == 1..NumIncrements
StatusIds == 1..NumStatus

\* JavaScript truthiness of a string-or-undefined value.
Truthy(v) == v # Undefined /\ v # Null /\ v # EmptyString

\* a || null
OrNull(v) == IF Truthy(v) THEN v ELSE Null

VARIABLES
    store,        \* the user_integrations table: a set of rows
    nextId,       \* source of fresh row ids (uuid_generate_v4)
    now,          \* the wall clock (NOW(), new Date())
    issued,       \* state tokens OAuth start has returned to callers
    cb,           \* the OAuth callback requests, each with its local variables
    lastWriter,   \* history: per user, the callback that last wrote the row
    disconnects,  \* number of disconnect requests handled so far
    usage,        \* templates.usage_count, per template id
    ex,           \* the export requests, each with its local variables
    inc,          \* the direct calls of incrementUsageCount
    statusReq,    \* the status requests, each with its response
    removals,     \* history: the direct removeIntegration calls, in order
    ip,           \* the interpolation loop run on its own
    enc,          \* history: the direct encryptions and their decryptions
    served,       \* history: the requests the templates router dispatched
    tst           \* the connection-test request

\* The variables of the repository functions called on their own and of
\* the status endpoint.
directVars == <<inc, statusReq, removals, ip, enc, served, tst>>

vars ==
    <<store, nextId, now, issued, cb, lastWriter, disconnects, usage, ex,
      directVars>>

oauthVars == <<store, nextId, now, issued, cb, lastWriter, disconnects>>

\* ------------------------------------------------------ OAuth state codec
\* String.prototype.split with a one-character separator: every occurrence
\* of the separator ends a segment ("".split(":") is [""]).
RECURSIVE Split(_, _)
Split(s, d) ==
    IF \A i \in 1..Len(s) : s[i] # d
    THEN <<s>>
    ELSE LET i == CHOOSE k \in 1..Len(s) :
                      s[k] = d /\ \A j \in 1..(k - 1) : s[j] # d
         IN  <<SubSeq(s, 1, i - 1)>> \o Split(SubSeq(s, i + 1, Len(s)), d)

\* `${state}:${req.user.id}`
IssueState(nonce, userId) == nonce \o <<":">> \o userId

\* (state as string)?.split(':') || []
StateSegments(state) ==
    IF state = Undefined THEN <<>> ELSE Split(state, ":")

\* Mutant: the user id taken from the last segment (segments.pop()).
ParsedUserIdLastSegment(state) ==
    LET segs == StateSegments(state)
    IN  IF Len(segs) >= 1 THEN segs[Len(segs)] ELSE Undefined

\* const [stateToken, userId] = ...
ParsedUserId(state) ==
    LET segs == StateSegments(state)
    IN  IF Len(segs) >= 2 THEN segs[2] ELSE Undefined

\* ------------------------------------------------------ credential cipher
\* CryptoJS.AES.encrypt(plaintext, passphrase).toString(): a fresh random
\* salt is drawn by every call and is part of the output.
Salts == {"s1", "s2"}

\* Mutant: every call uses the same salt.
EncryptFixedSalt(plaintext, key, salt) == <<"#ct", key, "s1">> \o plaintext

Encrypt(plaintext, key, salt) == <<"#ct", key, salt>> \o plaintext

IsCiphertextUnder(v, key) ==
    Len(v) >= 3 /\ v[1] = "#ct" /\ v[2] = key /\ v[3] \in Salts

\* ------------------------------------------------------ responses
RedirectError(reason) == [kind |-> "error", reason |-> reason]
RedirectConnected == [kind |-> "connected", reason |-> "notion"]

ErrorReasons ==
    {"invalid_state", "oauth_failed", "missing_code",
     "token_exchange_failed", "storage_failed", "unexpected_error"}

\* ------------------------------------------------------ request inputs
Nonces == {<<"n">>}

\* Values of the callback's state query parameter.
StateInputs ==
    {Undefined, NonString, EmptyString, <<":">>, <<"n">>, <<"n", ":">>,
     <<":", "a">>, <<"n", ":", "a">>, <<"m", ":", "a">>, <<"n", ":", "b">>,
     <<"n", ":", "c">>, <<"n", ":", "x", "y">>,
     <<"n", ":", "a", ":", "b">>}

\* Values of the callback's code query parameter.
CodeInputs == {Undefined, NonString, EmptyString, <<"k">>}

\* Values of the callback's error query parameter.
ErrorInputs == {Undefined, <<"e">>}

\* JSON bodies of a 2xx answer of the token endpoint.
TokenResponses ==
    {[access_token |-> <<"t", "1">>, refresh_token |-> Undefined,
      workspace_name |-> <<"w", "1">>, workspace_id |-> <<"i", "1">>],
     [access_token |-> <<"t", "2">>, refresh_token |-> <<"r", "2">>,
      workspace_name |-> EmptyString, workspace_id |-> Undefined],
     [access_token |-> Undefined, refresh_token |-> Undefined,
      workspace_name |-> <<"w", "3">>, workspace_id |-> Undefined],
     [access_token |-> <<"t", "4">>, refresh_token |-> Undefined,
      workspace_name |-> Null, workspace_id |-> Undefined]}

NoTokenData ==
    [access_token |-> Undefined, refresh_token |-> Undefined,
     workspace_name |-> Undefined, workspace_id |-> Undefined]

NoInput ==
    [accessToken |-> Undefined, refreshToken |-> Undefined,
     workspaceName |-> Undefined, workspaceId |-> Undefined]

NoRow ==
    [id |-> 0, user_id |-> Undefined, provider |-> "none",
     access_token |-> Null, refresh_token |-> Null, workspace_name |-> Null,
     workspace_id |-> Null, expires_at |-> Null, created_at |-> 0,
     updated_at |-> 0]

\* ------------------------------------------------------ initial state
IdleCallback ==
    [pc |-> "idle", state |-> Undefined, code |-> Undefined,
     err |-> Undefined, userId |-> Undefined, tokenStatus |-> "none",
     tokenData |-> NoTokenData, input |-> NoInput, existing |-> NoRow,
     result |-> NoRow, upsertError |-> "none", redirects |-> <<>>,
     exchanges |-> 0, replay |-> FALSE, sawWriter |-> 0, dbFault |-> FALSE,
     wrote |-> "none", wroteAt |-> 0]

NoTemplate ==
    [id |-> "none", user_id |-> Undefined, is_public |-> FALSE,
     prompt |-> <<>>]

ExportResponse(status, error) == [status |-> status, error |-> error]
NoResponse == ExportResponse(0, "none")

\* The data member of the success response of an export.
NoData == [notionResourceId |-> Undefined, mode |-> "none"]

IdleExport ==
    [pc |-> "idle", userId |-> Undefined, id |-> "none",
     body |-> [mode |-> "none", targetId |-> Undefined, variables |-> <<>>],
     notionContent |-> Undefined,
     template |-> NoTemplate, integration |-> NoRow, token |-> Undefined,
     notionParent |-> [type |-> "none", id |-> Undefined],
     notionOk |-> FALSE, response |-> NoResponse,
     loadOutcome |-> "none", credentialLoads |-> 0, decrypts |-> 0,
     notionCalls |-> 0, increments |-> 0,
     notionResourceId |-> Undefined, incrementResult |-> "none",
     incrementFault |-> FALSE, templateOutcome |-> "none",
     data |-> NoData]

\* The data member of the answers of GET /status.
NotConnected == [connected |-> FALSE, workspace |-> Null, lastUpdated |-> 0]
Connected(row) ==
    [connected |-> TRUE,
     workspace |-> [name |-> row.workspace_name, id |-> row.workspace_id],
     lastUpdated |-> row.updated_at]

IdleStatus ==
    [pc |-> "idle", userId |-> Undefined, loadOutcome |-> "none",
     data |-> NotConnected]

IdleInterpolation ==
    [pc |-> "idle", body |-> <<>>, entries |-> <<>>, i |-> 0,
     content |-> <<>>]

\* The connection-test request before it arrives.
IdleTest ==
    [pc |-> "idle", userId |-> Undefined, token |-> Undefined, status |-> 0,
     error |-> "none"]

IdleIncrement ==
    [pc |-> "idle", id |-> "none", success |-> FALSE, dbFault |-> FALSE]

\* Row id of the sample integration of the seed data.
SeedRowId == 401

\* supabase/seed.sql: the sample integration of the first sample profile,
\* its access token a placeholder text.
SeedRows ==
    {[id |-> SeedRowId, user_id |-> <<"a">>, provider |-> "notion",
      access_token |-> <<"e">>, refresh_token |-> Null,
      workspace_name |-> <<"w", "0">>, workspace_id |-> <<"i", "0">>,
      expires_at |-> Null, created_at |-> 0, updated_at |-> 0]}

InitWith(rows) ==
    /\ store = rows
    /\ nextId = 1
    /\ now = 0
    /\ issued = {}
    /\ cb = [p \in CallbackIds |-> IdleCallback]
    /\ lastWriter = [u \in Profiles |-> 0]
    /\ disconnects = 0
    /\ usage = [t \in {"t1", "t2"} |-> 0]
    /\ ex = [e \in 1..NumExports |-> IdleExport]
    /\ inc = [i \in IncrementIds |-> IdleIncrement]
    /\ statusReq = [s \in StatusIds |-> IdleStatus]
    /\ removals = <<>>
    /\ ip = IdleInterpolation
    /\ enc = <<>>
    /\ served = <<>>
    /\ tst = IdleTest

\* The schema alone, or the schema and the seed data.
Init == InitWith({}) \/ InitWith(SeedRows)

\* ------------------------------------------------------ the store
IsString(v) == v # Undefined /\ v # Null /\ v # NonString

\* .eq('user_id', userId).eq('provider', provider)
RowsOf(rows, userId, provider) ==
    {r \in rows : r.user_id = userId /\ r.provider = provider}

\* Mutant: the table without its uniqueness constraint.
NoUniqueConstraint(rows, userId, provider) == FALSE

\* UNIQUE(user_id, provider): an insert of a second row of the pair is
\* rejected.
UniqueViolation(rows, userId, provider) ==
    RowsOf(rows, userId, provider) # {}

\* user_id UUID NOT NULL REFERENCES profiles(id)
ForeignKeyViolation(userId) == userId \notin Profiles

\* UpsertNotionTokenSchema.parse(integrationData)
ValidUpsertInput(d) ==
    /\ IsString(d.accessToken) /\ Len(d.accessToken) >= 1
    /\ (d.refreshToken = Undefined \/ IsString(d.refreshToken))
    /\ (d.workspaceName = Undefined \/ IsString(d.workspaceName))
    /\ (d.workspaceId = Undefined \/ IsString(d.workspaceId))

\* Mutant: the update written as a replacement of the row, creation
\* timestamp included.
UpdatedRowResetsCreation(row, d, t) ==
    [row EXCEPT !.access_token = d.accessToken,
                !.refresh_token = OrNull(d.refreshToken),
                !.workspace_name = OrNull(d.workspaceName),
                !.workspace_id = OrNull(d.workspaceId),
                !.expires_at = Null,
                !.created_at = t,
                !.updated_at = t]

\* The update branch's updateData applied to the existing row; the
\* updated_at trigger sets updated_at to NOW() as well.
UpdatedRow(row, d, t) ==
    [row EXCEPT !.access_token = d.accessToken,
                !.refresh_token = OrNull(d.refreshToken),
                !.workspace_name = OrNull(d.workspaceName),
                !.workspace_id = OrNull(d.workspaceId),
                !.expires_at = Null,
                !.updated_at = t]

\* Mutant: the new row is stored under the other profile.
InsertedRowOtherUser(id, userId, d, t) ==
    [id |-> id,
     user_id |-> IF userId = <<"a">> THEN <<"b">> ELSE <<"a">>,
     provider |-> "notion",
     access_token |-> d.accessToken,
     refresh_token |-> OrNull(d.refreshToken),
     workspace_name |-> OrNull(d.workspaceName),
     workspace_id |-> OrNull(d.workspaceId),
     expires_at |-> Null, created_at |-> t, updated_at |-> t]

\* The insert branch's newIntegration with the column defaults.
InsertedRow(id, userId, d, t) ==
    [id |-> id, user_id |-> userId, provider |-> "notion",
     access_token |-> d.accessToken,
     refresh_token |-> OrNull(d.refreshToken),
     workspace_name |-> OrNull(d.workspaceName),
     workspace_id |-> OrNull(d.workspaceId),
     expires_at |-> Null, created_at |-> t, updated_at |-> t]

\* ------------------------------------------------------ GET /oauth/start
\* The handler keeps nothing: the state token only travels in the answer.
OAuthStart(userId, nonce) ==
    /\ issued' = issued \cup {IssueState(nonce, userId)}
    /\ UNCHANGED <<store, nextId, now, cb, lastWriter, disconnects, usage, ex,
                 directVars>>

\* ------------------------------------------------------ GET /oauth/callback
\* Mutant: a state that OAuth start has not issued is refused.
CallbackGuardsIssuedOnly(state, code, err) ==
    IF state = NonString THEN "unexpected_error"
    ELSE IF ~Truthy(ParsedUserId(state)) \/ state \notin issued
    THEN "invalid_state"
    ELSE IF Truthy(err) THEN "oauth_failed"
    ELSE IF ~Truthy(code) \/ code = NonString THEN "missing_code"
    ELSE "proceed"

\* Mutant: the code parameter is tested before the provider error.
CallbackGuardsCodeBeforeError(state, code, err) ==
    IF state = NonString THEN "unexpected_error"
    ELSE IF ~Truthy(ParsedUserId(state)) THEN "invalid_state"
    ELSE IF ~Truthy(code) \/ code = NonString THEN "missing_code"
    ELSE IF Truthy(err) THEN "oauth_failed"
    ELSE "proceed"

\* Mutant: the test of the code parameter inverted.
CallbackGuardsCodeInverted(state, code, err) ==
    IF state = NonString THEN "unexpected_error"
    ELSE IF ~Truthy(ParsedUserId(state)) THEN "invalid_state"
    ELSE IF Truthy(err) THEN "oauth_failed"
    ELSE IF Truthy(code) THEN "missing_code"
    ELSE "proceed"

\* The guards before the token exchange, in the order of the handler. A
\* state that is not a string has no split method: the call throws and the
\* handler's catch answers unexpected_error.
CallbackGuards(state, code, err) ==
    IF state = NonString THEN "unexpected_error"
    ELSE IF ~Truthy(ParsedUserId(state)) THEN "invalid_state"
    ELSE IF Truthy(err) THEN "oauth_failed"
    ELSE IF ~Truthy(code) \/ code = NonString THEN "missing_code"
    ELSE "proceed"

\* Mutant: the answer's status is not looked at.
TokenExchangeNeverFailed(status) == FALSE

\* if (!tokenResponse.ok)
TokenExchangeFailed(status) == status = "non2xx"

\* Mutant: the access token handed to the store as received.
EncryptedAccessTokenPlain(access_token, salt) == access_token

\* CryptoJS.AES.encrypt(access_token, env.ENCRYPTION_KEY).toString(); a
\* missing access_token is encrypted as the empty message when the call
\* does not throw.
EncryptedAccessToken(access_token, salt) ==
    Encrypt(IF IsString(access_token) THEN access_token ELSE EmptyString,
            ENCRYPTION_KEY, salt)

\* refresh_token ? CryptoJS.AES.encrypt(refresh_token, ...) : undefined
EncryptedRefreshToken(refresh_token, salt) ==
    IF Truthy(refresh_token)
    THEN Encrypt(refresh_token, ENCRYPTION_KEY, salt)
    ELSE Undefined

\* Mutant: a reason code outside the documented list.
UpsertFailureReasonOther == "storage_error"

\* The reason the handler gives when upsertNotionToken returns an error.
UpsertFailureReason == "storage_failed"

Finish(c, redirect) ==
    [c EXCEPT !.pc = "done", !.redirects = Append(@, redirect)]

\* The request arrives: the synchronous part of the handler up to the fetch
\* of the token endpoint.
CallbackReceive(p, state, code, err) ==
    /\ cb[p].pc = "idle"
    /\ \A q \in CallbackIds : q < p => cb[q].pc # "idle"
    /\ LET verdict == CallbackGuards(state, code, err)
           got == [cb[p] EXCEPT
                     !.state = state, !.code = code, !.err = err,
                     !.userId = ParsedUserId(state),
                     !.replay = /\ state \in issued
                                /\ \E q \in CallbackIds :
                                      cb[q].pc = "done" /\ cb[q].state = state]
       IN  cb' = [cb EXCEPT ![p] =
                    IF verdict = "proceed"
                    THEN [got EXCEPT !.pc = "fetch", !.exchanges = @ + 1]
                    ELSE Finish(got, RedirectError(verdict))]
    /\ UNCHANGED <<store, nextId, now, issued, lastWriter, disconnects, usage, ex,
                 directVars>>

\* The token endpoint answers (or the request fails): the handler up to the
\* first storage call of upsertNotionToken.
CallbackTokenResponse(p, status, jsonOk, data, encryptOk, s1, s2) ==
    /\ cb[p].pc = "fetch"
    /\ LET got == [cb[p] EXCEPT !.tokenStatus = status]
           input == [accessToken |-> EncryptedAccessToken(data.access_token, s1),
                     refreshToken |-> EncryptedRefreshToken(data.refresh_token, s2),
                     workspaceName |-> data.workspace_name,
                     workspaceId |-> data.workspace_id]
       IN  cb' = [cb EXCEPT ![p] =
                    IF status = "network_error"
                    THEN Finish(got, RedirectError("unexpected_error"))
                    ELSE IF TokenExchangeFailed(status)
                    THEN Finish(got, RedirectError("token_exchange_failed"))
                    ELSE IF ~jsonOk
                    THEN Finish(got, RedirectError("unexpected_error"))
                    ELSE IF ~IsString(data.access_token) /\ ~encryptOk
                    THEN Finish([got EXCEPT !.tokenData = data],
                                RedirectError("unexpected_error"))
                    ELSE IF ~ValidUpsertInput(input)
                    THEN Finish([got EXCEPT !.tokenData = data, !.input = input,
                                            !.upsertError = "validation"],
                                RedirectError(UpsertFailureReason))
                    ELSE [got EXCEPT !.tokenData = data, !.input = input,
                                     !.pc = "select"]]
    /\ UNCHANGED <<store, nextId, now, issued, lastWriter, disconnects, usage, ex,
                 directVars>>

\* upsertNotionToken: the select that checks for an existing row.
UpsertSelect(p, dbOk) ==
    /\ cb[p].pc = "select"
    /\ LET c == cb[p]
           found == RowsOf(store, c.userId, "notion")
       IN  cb' = [cb EXCEPT ![p] =
                    IF c.userId \notin UuidSyntax
                    THEN Finish([c EXCEPT !.upsertError = "check"],
                                RedirectError(UpsertFailureReason))
                    ELSE IF ~dbOk
                    THEN Finish([c EXCEPT !.upsertError = "check",
                                          !.dbFault = TRUE],
                                RedirectError(UpsertFailureReason))
                    ELSE IF Cardinality(found) = 1
                    THEN [c EXCEPT !.pc = "update",
                                   !.existing = CHOOSE r \in found : TRUE,
                                   !.sawWriter = lastWriter[c.userId]]
                    ELSE [c EXCEPT !.pc = "insert"]]
    /\ UNCHANGED <<store, nextId, now, issued, lastWriter, disconnects, usage, ex,
                 directVars>>

\* upsertNotionToken: the update of the row found, and the handler's answer.
UpsertUpdate(p, dbOk) ==
    /\ cb[p].pc = "update"
    /\ LET c == cb[p]
           target == {r \in store : r.id = c.existing.id}
       IN  IF dbOk /\ target # {}
           THEN LET new == UpdatedRow(CHOOSE r \in target : TRUE, c.input, now)
                IN  /\ store' = (store \ target) \cup {new}
                    /\ lastWriter' = [lastWriter EXCEPT ![c.userId] = p]
                    /\ cb' = [cb EXCEPT ![p] =
                                Finish([c EXCEPT !.result = new,
                                                 !.wrote = "update",
                                                 !.wroteAt = now],
                                       RedirectConnected)]
           ELSE /\ cb' = [cb EXCEPT ![p] =
                            Finish([c EXCEPT !.upsertError = "update",
                                             !.dbFault = ~dbOk],
                                   RedirectError(UpsertFailureReason))]
                /\ UNCHANGED <<store, lastWriter>>
    /\ UNCHANGED <<nextId, now, issued, disconnects, usage, ex,
                 directVars>>

\* upsertNotionToken: the insert of a new row, and the handler's answer.
UpsertInsert(p, dbOk) ==
    /\ cb[p].pc = "insert"
    /\ LET c == cb[p]
       IN  IF /\ dbOk
              /\ ~ForeignKeyViolation(c.userId)
              /\ ~UniqueViolation(store, c.userId, "notion")
           THEN LET new == InsertedRow(nextId, c.userId, c.input, now)
                IN  /\ store' = store \cup {new}
                    /\ nextId' = nextId + 1
                    /\ lastWriter' = [lastWriter EXCEPT ![c.userId] = p]
                    /\ cb' = [cb EXCEPT ![p] =
                                Finish([c EXCEPT !.result = new,
                                                 !.wrote = "insert",
                                                 !.wroteAt = now],
                                       RedirectConnected)]
           ELSE /\ cb' = [cb EXCEPT ![p] =
                            Finish([c EXCEPT !.upsertError = "insert",
                                             !.dbFault = ~dbOk],
                                   RedirectError(UpsertFailureReason))]
                /\ UNCHANGED <<store, nextId, lastWriter>>
    /\ UNCHANGED <<now, issued, disconnects, usage, ex,
                 directVars>>

\* ------------------------------------------------------ DELETE /disconnect
\* GetIntegrationSchema.parse({ provider })
ValidProvider(provider) == Len(provider) >= 1

\* .delete().eq('user_id', userId).eq('provider', provider)
RowsAfterRemove(rows, userId, provider) ==
    rows \ {r \in rows : r.user_id = userId /\ r.provider = provider}

\* Mutant: a delete that matched no row is answered as an error.
RemoveSucceedsOnlyIfPresent(rows, userId, provider, dbOk) ==
    /\ dbOk
    /\ \E r \in rows : r.user_id = userId /\ r.provider = provider

\* if (error) return {success: false, ...}; return {success: true}: a
\* delete that matches no row is no error.
RemoveSucceeds(rows, userId, provider, dbOk) == dbOk

\* removeIntegration(req.user.id, 'notion'): one delete statement.
Disconnect(userId, dbOk) ==
    /\ disconnects < MaxDisconnects
    /\ disconnects' = disconnects + 1
    /\ IF dbOk
       THEN /\ store' = RowsAfterRemove(store, userId, "notion")
            /\ lastWriter' = [lastWriter EXCEPT ![userId] = 0]
       ELSE UNCHANGED <<store, lastWriter>>
    /\ UNCHANGED <<nextId, now, issued, cb, usage, ex,
                 directVars>>

\* Names of providers as the text the store keeps.
ProviderText(provider) ==
    IF provider = <<"n">> THEN "notion" ELSE "other"

\* IntegrationsRepository.removeIntegration(userId, provider) called on
\* its own: validation of the provider, then one delete statement.
RemoveIntegration(userId, provider, dbOk) ==
    /\ Len(removals) < NumRemovals
    /\ LET valid == ValidProvider(provider)
           name == ProviderText(provider)
           success == valid /\ RemoveSucceeds(store, userId, name, dbOk)
           after == IF valid /\ dbOk
                    THEN RowsAfterRemove(store, userId, name)
                    ELSE store
       IN  /\ store' = after
           /\ lastWriter' =
                 IF RowsOf(after, userId, "notion") = {} /\ userId \in Profiles
                 THEN [lastWriter EXCEPT ![userId] = 0]
                 ELSE lastWriter
           /\ removals' = Append(removals,
                 [userId |-> userId, provider |-> provider,
                  fault |-> ~dbOk, success |-> success,
                  before |-> store, after |-> after])
    /\ UNCHANGED <<nextId, now, issued, cb, disconnects, usage, ex, inc,
                   statusReq, ip, enc, served, tst>>

\* ------------------------------------------------------ the clock
Tick ==
    /\ now < MaxTime
    /\ now' = now + 1
    /\ UNCHANGED <<store, nextId, issued, cb, lastWriter, disconnects, usage, ex,
                 directVars>>

\* ------------------------------------------------ regular expressions
\* new RegExp(source, 'g') for sources made of '{', '}', '.', '+', '(',
\* '|', digits and of characters that have no meaning in a pattern (no
\* ')', '[', '*', '?', '^', '$', '\', ','): the sources the modelled
\* requests produce.
Digits == {"0", "1", "2", "3", "4", "5", "6", "7", "8", "9"}

DigitValue(c) ==
    CHOOSE n \in 0..9 :
        <<"0", "1", "2", "3", "4", "5", "6", "7", "8", "9">>[n + 1] = c

\* Number of digits of s from position i on.
RECURSIVE DigitRun(_, _)
DigitRun(s, i) ==
    IF i <= Len(s) /\ s[i] \in Digits THEN 1 + DigitRun(s, i + 1) ELSE 0

\* Value of the n decimal digits of s that end at position i.
RECURSIVE DecimalValue(_, _, _)
DecimalValue(s, i, n) ==
    IF n = 0 THEN 0
    ELSE DecimalValue(s, i - 1, n - 1) * 10 + DigitValue(s[i])

\* A braced quantifier {digits} begins at position i of s.
BracedQuantifierAt(s, i) ==
    /\ i <= Len(s) /\ s[i] = "{"
    /\ DigitRun(s, i + 1) > 0
    /\ i + 1 + DigitRun(s, i + 1) <= Len(s)
    /\ s[i + 1 + DigitRun(s, i + 1)] = "}"

\* "Repeat as often as possible".
Unbounded == 1000

SyntaxError == <<"#SyntaxError">>

\* The terms of one alternative from position i on, or a syntax error: an
\* atom (a character, '.' for any character) and the quantifier after it.
\* A '(' opens a group that nothing closes; a quantifier where an atom is
\* expected has nothing to repeat.
RECURSIVE ParseTerms(_, _)
ParseTerms(s, i) ==
    IF i > Len(s) THEN [error |-> FALSE, terms |-> <<>>]
    ELSE IF s[i] \in {"(", "+"} \/ BracedQuantifierAt(s, i)
    THEN [error |-> TRUE, terms |-> <<>>]
    ELSE LET atom == [any |-> s[i] = ".", ch |-> s[i]]
             n == DigitRun(s, i + 2)
             plus == i + 1 <= Len(s) /\ s[i + 1] = "+"
             braced == BracedQuantifierAt(s, i + 1)
             term == IF plus
                     THEN [atom |-> atom, min |-> 1, max |-> Unbounded]
                     ELSE IF braced
                     THEN [atom |-> atom,
                           min |-> DecimalValue(s, i + 1 + n, n),
                           max |-> DecimalValue(s, i + 1 + n, n)]
                     ELSE [atom |-> atom, min |-> 1, max |-> 1]
             next == IF plus THEN i + 2
                     ELSE IF braced THEN i + 3 + n
                     ELSE i + 1
             rest == ParseTerms(s, next)
         IN  [error |-> rest.error, terms |-> <<term>> \o rest.terms]

\* new RegExp(source, 'g'): the alternatives of the pattern in their
\* order, or a SyntaxError thrown.
Compile(source) ==
    LET parts == Split(source, "|")
        parsed == [k \in 1..Len(parts) |-> ParseTerms(parts[k], 1)]
    IN  [error |-> \E k \in 1..Len(parts) : parsed[k].error,
         alts |-> [k \in 1..Len(parts) |-> parsed[k].terms]]

AtomMatches(atom, c) == IF atom.any THEN c # "\n" ELSE atom.ch = c

\* Number of characters of s from pos on that the atom matches, at most max.
RECURSIVE RunLength(_, _, _, _)
RunLength(atom, s, pos, max) ==
    IF max > 0 /\ pos <= Len(s) /\ AtomMatches(atom, s[pos])
    THEN 1 + RunLength(atom, s, pos + 1, max - 1)
    ELSE 0

\* The backtracking matcher: terms k.. of an alternative matched at pos,
\* the term k taking count characters or, failing that, fewer. The result
\* is the position after the match, 0 when there is none.
RECURSIVE MatchTerms(_, _, _, _, _)
MatchTerms(terms, k, s, pos, count) ==
    IF k > Len(terms) THEN pos
    ELSE IF count < terms[k].min THEN 0
    ELSE LET after == pos + count
             rest == IF k = Len(terms) THEN after
                     ELSE MatchTerms(terms, k + 1, s, after,
                              RunLength(terms[k + 1].atom, s, after,
                                        terms[k + 1].max))
         IN  IF rest # 0 THEN rest
             ELSE IF count = 0 THEN 0
             ELSE MatchTerms(terms, k, s, pos, count - 1)

\* The first alternative from k on that matches at pos decides the match.
RECURSIVE MatchAt(_, _, _, _)
MatchAt(alts, k, s, pos) ==
    IF k > Len(alts) THEN 0
    ELSE LET terms == alts[k]
             end == IF terms = <<>> THEN pos
                    ELSE MatchTerms(terms, 1, s, pos,
                             RunLength(terms[1].atom, s, pos, terms[1].max))
         IN  IF end # 0 THEN end ELSE MatchAt(alts, k + 1, s, pos)

\* GetSubstitution for a pattern without groups and a replacement text
\* without quote characters: "$$" is "$", "$&" the matched text; a "$"
\* before a digit or any other character stays as it is.
RECURSIVE Substitution(_, _, _)
Substitution(value, i, matched) ==
    IF i > Len(value) THEN <<>>
    ELSE IF value[i] = "$" /\ i < Len(value) /\ value[i + 1] \in {"$", "&"}
    THEN ( IF value[i + 1] = "$" THEN <<"$">> ELSE matched )
         \o Substitution(value, i + 2, matched)
    ELSE <<value[i]>> \o Substitution(value, i + 1, matched)

\* Mutant: only the first match is replaced (no 'g' flag).
RECURSIVE ReplaceFirstOnly(_, _, _, _)
ReplaceFirstOnly(alts, s, pos, value) ==
    IF pos > Len(s) THEN <<>>
    ELSE LET end == MatchAt(alts, 1, s, pos)
         IN  IF end = 0 \/ end = pos
             THEN <<s[pos]>> \o ReplaceFirstOnly(alts, s, pos + 1, value)
             ELSE Substitution(value, 1, SubSeq(s, pos, end - 1))
                  \o SubSeq(s, end, Len(s))

\* String.prototype.replace with a global pattern, from position pos on:
\* the matches are found from left to right in s, each search starting
\* where the match before ended (one character further after an empty
\* match).
RECURSIVE Replace(_, _, _, _)
Replace(alts, s, pos, value) ==
    LET end == MatchAt(alts, 1, s, pos)
        put == Substitution(value, 1, SubSeq(s, pos, end - 1))
    IN  IF pos > Len(s)
        THEN IF end = pos THEN put ELSE <<>>
        ELSE IF end = 0
        THEN <<s[pos]>> \o Replace(alts, s, pos + 1, value)
        ELSE IF end = pos
        THEN put \o <<s[pos]>> \o Replace(alts, s, pos + 1, value)
        ELSE put \o Replace(alts, s, end, value)

\* `{{${key}}}`
Placeholder(key) == <<"{", "{">> \o key \o <<"}", "}">>

\* One round of the loop over Object.entries(exportData.variables):
\* content.replace(new RegExp(placeholder, 'g'), value), or SyntaxError
\* thrown by the constructor.
InterpolateEntry(content, key, value) ==
    LET re == Compile(Placeholder(key))
    IN  IF re.error THEN SyntaxError
        ELSE Replace(re.alts, content, 1, value)

\* The whole loop from entry i on: the rendered content, or SyntaxError
\* when a constructor has thrown.
RECURSIVE Interpolate(_, _, _)
Interpolate(content, entries, i) ==
    IF i > Len(entries) THEN content
    ELSE LET r == InterpolateEntry(content, entries[i].key, entries[i].value)
         IN  IF r = SyntaxError THEN SyntaxError
             ELSE Interpolate(r, entries, i + 1)

\* A property name that is an array index: Object.entries lists these
\* first, in ascending order, and the other names after them in the order
\* of their insertion.
IsIndexKey(key) ==
    /\ Len(key) >= 1
    /\ \A k \in 1..Len(key) : key[k] \in Digits
    /\ Len(key) > 1 => key[1] # "0"

EntriesInOrder(entries) ==
    \A k \in 1..Len(entries), l \in 1..Len(entries) :
        k < l =>
            /\ entries[k].key # entries[l].key
            /\ IsIndexKey(entries[l].key) =>
                  /\ IsIndexKey(entries[k].key)
                  /\ DecimalValue(entries[k].key, Len(entries[k].key),
                                  Len(entries[k].key))
                       < DecimalValue(entries[l].key, Len(entries[l].key),
                                      Len(entries[l].key))

\* Names and values of the variables of a request, and prompts of
\* templates.
KeyInputs ==
    {<<"a">>, <<"b">>, <<"n", "a", "m", "e">>,
     <<".">>, <<"+">>, <<"(">>, <<"|">>, <<"1">>}

ValueInputs ==
    {<<"x">>, <<"A", "d", "a">>, <<"{", "{", "b", "}", "}">>,
     <<"$", "&">>, <<"$", "1">>}

PromptInputs ==
    {<<"H", "e", "l", "l", "o", " ", "{", "{", "n", "a", "m", "e", "}", "}",
       "!">>,
     <<"{", "{", "a", "}", "}">>,
     <<"{", "{", "a", "}", "}", "{", "{", "a", "}", "}">>,
     <<"{", "{", "m", "i", "s", "s", "i", "n", "g", "}", "}">>,
     <<"{", "{", "a", "}", "}", "-", "{", "{", "b", "}", "}">>,
     <<"{", "{", ".", "}", "}", "{", "{", "+", "}", "}", "{", "{", "{", "}",
       "}">>,
     <<"{", "{", "1", "}", "}", "{", "}", "{", "{", "|", "}", "}">>}

\* Object.entries(exportData.variables) of the requests.
VariableInputs ==
    UNION {{entries \in [1..n -> [key : KeyInputs, value : ValueInputs]] :
               EntriesInOrder(entries)} : n \in 0..MaxVariables}

\* --------------------------------------------- the interpolation loop
\* let interpolatedContent = templateResult.data.content.prompt
InterpolateStart(prompt, entries) ==
    /\ ip.pc = "idle"
    /\ ip' = [pc |-> "loop", body |-> prompt, entries |-> entries, i |-> 1,
              content |-> prompt]
    /\ UNCHANGED <<oauthVars, usage, ex, inc, statusReq, removals, enc,
                 served, tst>>

\* One round of the loop, or its end.
InterpolateRound ==
    /\ ip.pc = "loop"
    /\ IF ip.i > Len(ip.entries)
       THEN ip' = [ip EXCEPT !.pc = "done"]
       ELSE LET r == InterpolateEntry(ip.content, ip.entries[ip.i].key,
                                      ip.entries[ip.i].value)
            IN  ip' = IF r = SyntaxError
                      THEN [ip EXCEPT !.pc = "thrown"]
                      ELSE [ip EXCEPT !.content = r, !.i = @ + 1]
    /\ UNCHANGED <<oauthVars, usage, ex, inc, statusReq, removals, enc,
                 served, tst>>

\* ------------------------------------------------------ templates
\* Rows of the templates table (usage_count is the variable usage).
Templates ==
    {[id |-> "t1", user_id |-> <<"a">>, is_public |-> FALSE,
      prompt |-> <<"{", "{", "a", "}", "}">>],
     [id |-> "t2", user_id |-> <<"a">>, is_public |-> TRUE,
      prompt |-> <<"{", "{", "a", "}", "}", "-", "{", "{", "b", "}", "}">>]}

TemplateIds == {t.id : t \in Templates}

\* Values of the :id route parameter of an export.
TemplateIdInputs == TemplateIds \cup {"t0"}

\* Request bodies of an export.
ExportBodyInputs ==
    {[mode |-> "page", targetId |-> <<"p">>, variables |-> <<>>],
     [mode |-> "database", targetId |-> <<"d">>,
      variables |-> <<[key |-> <<"a">>, value |-> <<"x">>]>>],
     [mode |-> "page", targetId |-> <<"p">>,
      variables |-> <<[key |-> <<"(">>, value |-> <<"x">>]>>],
     [mode |-> "table", targetId |-> EmptyString, variables |-> <<>>]}

\* ExportTemplateSchema.parse(req.body)
ValidExportBody(b) ==
    /\ b.mode \in {"page", "database"}
    /\ IsString(b.targetId) /\ Len(b.targetId) >= 1

\* Mutant: nobody is refused.
AccessDeniedNever(template, userId) == FALSE

\* Mutant: the owner comparison inverted.
AccessDeniedInverted(template, userId) ==
    ~template.is_public /\ template.user_id = userId

\* if (!templateResult.data.is_public && templateResult.data.user_id !== req.user.id)
AccessDenied(template, userId) ==
    ~template.is_public /\ template.user_id # userId

\* Mutant: only the error of the load is tested, not the missing row.
IntegrationMissingOnErrorOnly(found, dbOk) == ~dbOk

\* if (integrationResult.error || !integrationResult.data)
IntegrationMissing(found, dbOk) == ~dbOk \/ Cardinality(found) # 1

\* CryptoJS.AES.decrypt(ciphertext, key).toString(CryptoJS.enc.Utf8): the
\* plaintext of a ciphertext made under the key; for any other input the
\* empty string, an exception (malformed UTF-8) or the decoded garbage.
DecryptThrows == <<"#throws">>
DecryptOutcomes(ciphertext, key) ==
    IF IsCiphertextUnder(ciphertext, key)
    THEN {SubSeq(ciphertext, 4, Len(ciphertext))}
    ELSE {EmptyString, DecryptThrows, <<"g">>}

\* ------------------------------------------- encrypt and decrypt, direct
\* Token strings given to the cipher.
PlaintextInputs == {EmptyString, <<"t", "1">>, <<"t", "2">>}

\* CryptoJS.AES.encrypt(t, env.ENCRYPTION_KEY).toString(): the salt is
\* eight random bytes, taken here as different from the salts drawn before.
EncryptCall(t, salt) ==
    /\ Len(enc) < NumEncryptions
    /\ \A k \in 1..Len(enc) : enc[k].salt # salt
    /\ enc' = Append(enc, [plaintext |-> t, salt |-> salt,
                           ciphertext |-> Encrypt(t, ENCRYPTION_KEY, salt),
                           decrypted |-> Undefined])
    /\ UNCHANGED <<oauthVars, usage, ex, inc, statusReq, removals, ip,
                 served, tst>>

\* CryptoJS.AES.decrypt(ciphertext, env.ENCRYPTION_KEY).toString(Utf8) of
\* the k-th ciphertext.
DecryptCall(k, plain) ==
    /\ k \in 1..Len(enc)
    /\ enc[k].decrypted = Undefined
    /\ plain \in DecryptOutcomes(enc[k].ciphertext, ENCRYPTION_KEY)
    /\ enc' = [enc EXCEPT ![k].decrypted = plain]
    /\ UNCHANGED <<oauthVars, usage, ex, inc, statusReq, removals, ip,
                 served, tst>>

Respond(x, status, error) ==
    [x EXCEPT !.pc = "done", !.response = ExportResponse(status, error)]

\* ------------------------------------------------------ POST /:id/export
\* The request of an authenticated user arrives: validation of the body,
\* then the load of the template is issued.
ExportReceive(e, userId, id, body) ==
    /\ ex[e].pc = "idle"
    /\ LET got == [ex[e] EXCEPT !.userId = userId, !.id = id, !.body = body]
       IN  ex' = [ex EXCEPT ![e] =
                    IF ~ValidExportBody(body)
                    THEN Respond(got, 400, "Validation error")
                    ELSE [got EXCEPT !.pc = "getTemplate"]]
    /\ UNCHANGED <<oauthVars, usage, directVars>>

\* TemplatesRepository.getById answers; the access check; the load of the
\* user's credential is issued.
ExportGetTemplate(e, dbOk) ==
    /\ ex[e].pc = "getTemplate"
    /\ LET found == {t \in Templates : t.id = ex[e].id}
           x == [ex[e] EXCEPT
                   !.templateOutcome = IF ~dbOk THEN "error"
                                       ELSE IF found = {} THEN "absent"
                                       ELSE "found"]
       IN  ex' = [ex EXCEPT ![e] =
                    IF ~dbOk \/ found = {}
                    THEN Respond(x, 404, "Template not found")
                    ELSE LET t == CHOOSE r \in found : TRUE
                         IN  IF AccessDenied(t, x.userId)
                             THEN Respond([x EXCEPT !.template = t],
                                          403, "Access denied")
                             ELSE [x EXCEPT !.template = t,
                                            !.pc = "getToken"]]
    /\ UNCHANGED <<oauthVars, usage, directVars>>

\* Mutant: the credential of the owner of the template is loaded.
CredentialUserOwner(userId, template) == template.user_id

\* IntegrationsRepository.getNotionToken(req.user.id): the user whose
\* credential the export loads.
CredentialUser(userId, template) == userId

\* Mutant: the parent kinds of the two modes are exchanged.
NotionParentSwapped(body) ==
    [type |-> IF body.mode = "page" THEN "database_id" ELSE "page_id",
     id |-> body.targetId]

\* parent: { page_id: exportData.targetId } in mode page, otherwise
\* parent: { database_id: exportData.targetId }.
NotionParent(body) ==
    [type |-> IF body.mode = "page" THEN "page_id" ELSE "database_id",
     id |-> body.targetId]

\* IntegrationsRepository.getNotionToken answers; decryption of the access
\* token; interpolation of the prompt (a SyntaxError of the RegExp
\* constructor is answered by the outer catch); the document-creation call
\* is issued. Reading access_token of a
\* null row throws, which the handler's outer catch answers.
ExportGetToken(e, dbOk, plain) ==
    /\ ex[e].pc = "getToken"
    /\ LET found == RowsOf(store,
                           CredentialUser(ex[e].userId, ex[e].template),
                           "notion")
           x == [ex[e] EXCEPT
                   !.credentialLoads = @ + 1,
                   !.loadOutcome = IF ~dbOk THEN "error"
                                   ELSE IF found = {} THEN "absent"
                                   ELSE "found"]
           row == IF dbOk /\ Cardinality(found) = 1
                  THEN CHOOSE r \in found : TRUE
                  ELSE NoRow
           y == [x EXCEPT !.integration = row, !.decrypts = @ + 1]
       IN  IF IntegrationMissing(found, dbOk)
           THEN /\ plain = EmptyString
                /\ ex' = [ex EXCEPT ![e] =
                            Respond(x, 400, "Notion integration not found")]
           ELSE IF row = NoRow
           THEN /\ plain = EmptyString
                /\ ex' = [ex EXCEPT ![e] =
                            Respond(x, 500, "Failed to export template")]
           ELSE /\ plain \in DecryptOutcomes(row.access_token, ENCRYPTION_KEY)
                /\ ex' = [ex EXCEPT ![e] =
                            IF plain = DecryptThrows
                            THEN Respond(y, 500, "Failed to export template")
                            ELSE IF ~Truthy(plain)
                            THEN Respond(y, 500, "Failed to decrypt access token")
                            ELSE IF Interpolate(y.template.prompt,
                                                y.body.variables, 1)
                                      = SyntaxError
                            THEN Respond(y, 500, "Failed to export template")
                            ELSE [y EXCEPT
                                    !.notionContent =
                                        Interpolate(y.template.prompt,
                                                    y.body.variables, 1),
                                    !.token = plain,
                                    !.notionCalls = @ + 1,
                                    !.notionParent = NotionParent(y.body),
                                    !.pc = "notion"]]
    /\ UNCHANGED <<oauthVars, usage, directVars>>

\* new Client({ auth: decryptedAccessToken }): the Notion API serves only
\* requests that carry an access token its token endpoint has handed out.
NotionAccepts(token) == token \in {d.access_token : d \in TokenResponses}

\* Identifier of the page the Notion API has created.
NotionPageIds == {<<"r">>}

\* notion.pages.create answers or throws; on success the usage-count
\* increment is issued.
ExportNotion(e, ok, pageId) ==
    /\ ex[e].pc = "notion"
    /\ ok => NotionAccepts(ex[e].token)
    /\ ex' = [ex EXCEPT ![e] =
                IF ok
                THEN [@ EXCEPT !.notionOk = TRUE,
                               !.notionResourceId = pageId,
                               !.pc = "increment"]
                ELSE Respond(@, 500, "Failed to export to Notion")]
    /\ UNCHANGED <<oauthVars, usage, directVars>>

\* Mutant: the update writes the current count plus one.
UsageCountPlusOne(count) == [integer |-> TRUE, value |-> count + 1]

\* .update({ usage_count: supabase.rpc('increment_usage_count') }): the
\* value written is the request builder rpc() returns, which is never
\* awaited; it is an object, not a number.
UsageCountUpdate(count) == [integer |-> FALSE, value |-> 0]

\* usage_count INTEGER: the store applies an update of the column only when
\* the value is an integer and the request itself does not fail.
UpdateApplied(written, dbOk) == dbOk /\ written.integer

\* Mutant: a failed increment is answered as a failed export.
ResponseAfterIncrementChecked(x, success) ==
    IF success
    THEN [Respond(x, 200, "none") EXCEPT
            !.data = [notionResourceId |-> x.notionResourceId,
                      mode |-> x.body.mode]]
    ELSE Respond(x, 500, "Failed to export to Notion")

\* await TemplatesRepository.incrementUsageCount(id); res.json({ok: true,
\* data: {notionResourceId, mode, ...}}): the result of the increment is
\* not read.
ResponseAfterIncrement(x, success) ==
    [Respond(x, 200, "none") EXCEPT
        !.data = [notionResourceId |-> x.notionResourceId,
                  mode |-> x.body.mode]]

\* TemplatesRepository.incrementUsageCount: one update request; an error
\* answer and an exception both return {success: false}. Then the success
\* response of the export.
ExportIncrement(e, dbOk) ==
    /\ ex[e].pc = "increment"
    /\ LET id == ex[e].id
           written == UsageCountUpdate(usage[id])
           success == UpdateApplied(written, dbOk)
           x == [ex[e] EXCEPT
                   !.increments = IF success THEN 1 ELSE 0,
                   !.incrementResult = IF success THEN "success"
                                       ELSE "failure",
                   !.incrementFault = ~dbOk]
       IN  /\ usage' = IF success
                       THEN [usage EXCEPT ![id] = written.value]
                       ELSE usage
           /\ ex' = [ex EXCEPT ![e] = ResponseAfterIncrement(x, success)]
    /\ UNCHANGED <<oauthVars, directVars>>

\* ------------------------------------------- incrementUsageCount, direct
\* A caller invokes TemplatesRepository.incrementUsageCount(id): the update
\* request is sent.
IncrementCall(i, id) ==
    /\ inc[i].pc = "idle"
    /\ inc' = [inc EXCEPT ![i] = [@ EXCEPT !.pc = "update", !.id = id]]
    /\ UNCHANGED <<oauthVars, usage, ex, statusReq, removals, ip, enc, served, tst>>

\* The store executes the update request of the call and the call returns
\* {success} or {success: false, error}.
IncrementUpdate(i, dbOk) ==
    /\ inc[i].pc = "update"
    /\ LET id == inc[i].id
           written == UsageCountUpdate(usage[id])
           success == UpdateApplied(written, dbOk)
       IN  /\ usage' = IF success
                       THEN [usage EXCEPT ![id] = written.value]
                       ELSE usage
           /\ inc' = [inc EXCEPT ![i] =
                        [@ EXCEPT !.pc = "done", !.success = success,
                                  !.dbFault = ~dbOk]]
    /\ UNCHANGED <<oauthVars, ex, statusReq, removals, ip, enc, served, tst>>

\* ------------------------------------------------------ GET /status
\* getNotionToken answers with the row, with no row or with an error; the
\* handler answers 200 with connected false in the last two cases.
Status(s, userId, dbOk) ==
    /\ statusReq[s].pc = "idle"
    /\ LET found == RowsOf(store, userId, "notion")
           outcome == IF ~dbOk THEN "error"
                      ELSE IF found = {} THEN "absent"
                      ELSE "found"
       IN  statusReq' = [statusReq EXCEPT ![s] =
                    [pc |-> "done", userId |-> userId,
                     loadOutcome |-> outcome,
                     data |-> IF IntegrationMissing(found, dbOk)
                              THEN NotConnected
                              ELSE Connected(CHOOSE r \in found : TRUE)]]
    /\ UNCHANGED <<oauthVars, usage, ex, inc, removals, ip, enc, served, tst>>

ExportStep(e) ==
    \/ \E u \in Profiles, id \in TemplateIdInputs, b \in ExportBodyInputs :
          ExportReceive(e, u, id, b)
    \/ \E ok \in BOOLEAN : ExportGetTemplate(e, ok)
    \/ \E ok \in BOOLEAN, t \in {EmptyString, DecryptThrows, <<"g">>} \cup
                                {d.access_token : d \in TokenResponses} :
          ExportGetToken(e, ok, t)
    \/ \E ok \in BOOLEAN, r \in NotionPageIds : ExportNotion(e, ok, r)
    \/ \E ok \in BOOLEAN : ExportIncrement(e, ok)

TokenStatuses == {"network_error", "non2xx", "ok"}

\* ------------------------------------------------------ POST /test
TestRespond(status, error) ==
    [tst EXCEPT !.pc = "done", !.status = status, !.error = error]

\* The request of an authenticated user arrives and the load of the user's
\* credential is issued.
TestReceive(userId) ==
    /\ tst.pc = "idle"
    /\ tst' = [tst EXCEPT !.pc = "getToken", !.userId = userId]
    /\ UNCHANGED <<oauthVars, usage, ex, inc, statusReq, removals, ip, enc,
                   served>>

\* IntegrationsRepository.getNotionToken answers; decryption of the access
\* token; the users.me call is issued.
TestGetToken(dbOk, plain) ==
    /\ tst.pc = "getToken"
    /\ LET found == RowsOf(store, tst.userId, "notion")
       IN  IF IntegrationMissing(found, dbOk)
           THEN /\ plain = EmptyString
                /\ tst' = TestRespond(400, "Notion integration not found")
           ELSE /\ plain \in DecryptOutcomes((CHOOSE r \in found : TRUE)
                                                .access_token, ENCRYPTION_KEY)
                /\ tst' = IF plain = DecryptThrows
                          THEN TestRespond(500, "Connection test failed")
                          ELSE IF ~Truthy(plain)
                          THEN TestRespond(500,
                                           "Failed to decrypt access token")
                          ELSE [tst EXCEPT !.pc = "me", !.token = plain]
    /\ UNCHANGED <<oauthVars, usage, ex, inc, statusReq, removals, ip, enc,
                   served>>

\* notion.users.me() answers or throws.
TestMe(ok) ==
    /\ tst.pc = "me"
    /\ ok => NotionAccepts(tst.token)
    /\ tst' = IF ok THEN TestRespond(200, "none")
              ELSE TestRespond(500, "Connection test failed")
    /\ UNCHANGED <<oauthVars, usage, ex, inc, statusReq, removals, ip, enc,
                   served>>

TestStep ==
    \/ \E u \in Profiles : TestReceive(u)
    \/ \E ok \in BOOLEAN, t \in {EmptyString, DecryptThrows, <<"g">>} \cup
                                {d.access_token : d \in TokenResponses} :
          TestGetToken(ok, t)
    \/ \E ok \in BOOLEAN : TestMe(ok)

\* The steps of callback request p, its query drawn from states, codes and
\* errs and the token endpoint's 2xx body from bodies.
CallbackStep(p, states, codes, errs, bodies) ==
    \/ \E s \in states \cup issued, c \in codes, e \in errs :
          CallbackReceive(p, s, c, e)
    \/ \E st \in TokenStatuses, j \in BOOLEAN, d \in bodies, k \in BOOLEAN,
          s1 \in Salts, s2 \in Salts :
          CallbackTokenResponse(p, st, j, d, k, s1, s2)
    \/ \E ok \in BOOLEAN : UpsertSelect(p, ok)
    \/ \E ok \in BOOLEAN : UpsertUpdate(p, ok)
    \/ \E ok \in BOOLEAN : UpsertInsert(p, ok)

\* The requests of the concurrent runs: few query shapes, every outcome of
\* the token endpoint and of the store.
RaceStates == {}
RaceCodes == {<<"k">>}
RaceErrors == {Undefined}
RaceBodies ==
    {d \in TokenResponses : d.access_token \in {<<"t", "1">>, <<"t", "2">>}}

\* Concurrent OAuth callbacks, disconnects and the clock.
Next ==
    \/ \E u \in Profiles, n \in Nonces : OAuthStart(u, n)
    \/ \E p \in CallbackIds :
          CallbackStep(p, RaceStates, RaceCodes, RaceErrors, RaceBodies)
    \/ \E u \in Profiles, ok \in BOOLEAN : Disconnect(u, ok)
    \/ Tick

Spec == Init /\ [][Next]_vars

\* One OAuth callback with every shape of query and of token answer.
NextCallback ==
    \/ \E u \in Profiles, n \in Nonces : OAuthStart(u, n)
    \/ CallbackStep(1, StateInputs, CodeInputs, ErrorInputs, TokenResponses)
    \/ \E u \in Profiles, ok \in BOOLEAN : Disconnect(u, ok)
    \/ Tick

SpecCallback == Init /\ [][NextCallback]_vars

\* Exports next to one OAuth callback and disconnects.
NextExport ==
    \/ \E u \in Profiles, n \in Nonces : OAuthStart(u, n)
    \/ CallbackStep(1, {}, RaceCodes, RaceErrors, TokenResponses)
    \/ \E u \in Profiles, ok \in BOOLEAN : Disconnect(u, ok)
    \/ \E e \in ExportIds : ExportStep(e)

SpecExport == Init /\ [][NextExport]_vars

\* The token answer of the callback next to status requests.
StatusBodies == {d \in TokenResponses : d.access_token = <<"t", "1">>}

\* Exports and status requests next to one OAuth callback and disconnects.
NextStatus ==
    \/ \E u \in Profiles, n \in Nonces : OAuthStart(u, n)
    \/ CallbackStep(1, {}, RaceCodes, RaceErrors, StatusBodies)
    \/ \E u \in Profiles, ok \in BOOLEAN : Disconnect(u, ok)
    \/ \E e \in ExportIds : ExportStep(e)
    \/ \E s \in StatusIds, u \in Profiles, ok \in BOOLEAN : Status(s, u, ok)

SpecStatus == Init /\ [][NextStatus]_vars

\* Values of the provider argument of removeIntegration.
ProviderInputs == {<<"n">>, <<"o">>, EmptyString}

\* Direct calls of removeIntegration next to one OAuth callback.
NextRemove ==
    \/ \E u \in Profiles, n \in Nonces : OAuthStart(u, n)
    \/ CallbackStep(1, {}, RaceCodes, RaceErrors, StatusBodies)
    \/ \E u \in Profiles, pr \in ProviderInputs, ok \in BOOLEAN :
          RemoveIntegration(u, pr, ok)

SpecRemove == Init /\ [][NextRemove]_vars

\* The interpolation loop on every prompt and every map of variables.
NextInterpolate ==
    \/ /\ ip.pc = "idle"
       /\ \E prompt \in PromptInputs, entries \in VariableInputs :
             InterpolateStart(prompt, entries)
    \/ InterpolateRound

SpecInterpolate == Init /\ [][NextInterpolate]_vars

\* The body of the exports next to the other endpoints.
FrameBodies == {b \in ExportBodyInputs : b.mode = "database"}

\* Every endpoint that reads or writes credentials, side by side: OAuth
\* start, one callback, disconnect, status, connection test and one export.
NextFrame ==
    \/ \E u \in Profiles, n \in Nonces : OAuthStart(u, n)
    \/ CallbackStep(1, {}, RaceCodes, RaceErrors, StatusBodies)
    \/ \E u \in Profiles, ok \in BOOLEAN : Disconnect(u, ok)
    \/ \E s \in StatusIds, u \in Profiles, ok \in BOOLEAN : Status(s, u, ok)
    \/ TestStep
    \/ \E e \in ExportIds, u \in Profiles, b \in FrameBodies :
          ExportReceive(e, u, "t2", b)
    \/ \E e \in ExportIds, ok \in BOOLEAN : ExportGetTemplate(e, ok)
    \/ \E e \in ExportIds, ok \in BOOLEAN,
          t \in {EmptyString, DecryptThrows, <<"g">>} \cup
                {d.access_token : d \in TokenResponses} :
          ExportGetToken(e, ok, t)
    \/ \E e \in ExportIds, ok \in BOOLEAN, r \in NotionPageIds :
          ExportNotion(e, ok, r)
    \/ \E e \in ExportIds, ok \in BOOLEAN : ExportIncrement(e, ok)

SpecFrame == Init /\ [][NextFrame]_vars

\* --------------------------------------------- the templates router
\* The routes of the templates router in the order of their registration;
\* a path is the sequence of its segments below /api/templates, ":id" is
\* the route parameter.
TemplateRoutes ==
    << [method |-> "GET",    path |-> <<>>,                 handler |-> "list"],
       [method |-> "GET",    path |-> <<":id">>,            handler |-> "getById"],
       [method |-> "POST",   path |-> <<>>,                 handler |-> "create"],
       [method |-> "PATCH",  path |-> <<":id">>,            handler |-> "update"],
       [method |-> "DELETE", path |-> <<":id">>,            handler |-> "delete"],
       [method |-> "GET",    path |-> <<"search">>,         handler |-> "search"],
       [method |-> "POST",   path |-> <<":id", "export">>,  handler |-> "export"],
       [method |-> "GET",    path |-> <<"my">>,             handler |-> "my"] >>

\* A route path matches a request path of the same number of segments
\* whose segments equal the route's, a parameter matching any segment.
PathMatches(routePath, path) ==
    /\ Len(routePath) = Len(path)
    /\ \A i \in 1..Len(path) : routePath[i] = ":id" \/ routePath[i] = path[i]

RouteMatches(route, method, path) ==
    route.method = method /\ PathMatches(route.path, path)

\* The router tries its routes in the order of registration; the first
\* that matches handles the request, and since none of the handlers calls
\* next() no later route sees it. 0: no route matches.
Dispatch(method, path) ==
    LET matching == {k \in 1..Len(TemplateRoutes) :
                        RouteMatches(TemplateRoutes[k], method, path)}
    IN  IF matching = {} THEN 0
        ELSE CHOOSE k \in matching : \A l \in matching : k <= l

\* The value of req.params.id in the handling route.
ParamId(k, path) ==
    IF k # 0 /\ Len(TemplateRoutes[k].path) > 0
             /\ TemplateRoutes[k].path[1] = ":id"
    THEN path[1]
    ELSE "none"

MethodInputs == {"GET", "POST", "PATCH", "DELETE"}
PathInputs ==
    {<<>>, <<"search">>, <<"my">>, <<"t1">>, <<"t1", "export">>,
     <<"search", "export">>}

\* A request arrives at the templates router and is handed to a handler,
\* or to the application's fallback when no route matches.
Request(method, path) ==
    /\ Len(served) < NumRequests
    /\ LET k == Dispatch(method, path)
       IN  served' = Append(served,
                            [method |-> method, path |-> path,
                             handler |-> IF k = 0 THEN "routeNotFound"
                                         ELSE TemplateRoutes[k].handler,
                             id |-> ParamId(k, path)])
    /\ UNCHANGED <<oauthVars, usage, ex, inc, statusReq, removals, ip, enc,
                   tst>>

NextRoute ==
    \E method \in MethodInputs, path \in PathInputs : Request(method, path)

SpecRoute == Init /\ [][NextRoute]_vars

\* Encryptions and decryptions of token strings under the process key.
NextCipher ==
    \/ \E t \in PlaintextInputs, s \in Salts : EncryptCall(t, s)
    \/ \E k \in 1..NumEncryptions,
          plain \in PlaintextInputs \cup {DecryptThrows, <<"g">>} :
          DecryptCall(k, plain)

SpecCipher == Init /\ [][NextCipher]_vars

\* Concurrent direct calls of incrementUsageCount.
NextUsage ==
    \/ \E i \in IncrementIds, id \in TemplateIds : IncrementCall(i, id)
    \/ \E i \in IncrementIds, ok \in BOOLEAN : IncrementUpdate(i, ok)

SpecUsage == Init /\ [][NextUsage]_vars

\* ====================================================== claims
\* The callback's execution changed no credential row.
WroteNothing(c) == c.wrote = "none"

\* A callback whose upsert reached the insert after its select had found
\* no row.
ObservedNoRow(c) ==
    /\ c.pc = "done"
    /\ c.existing = NoRow
    /\ (c.wrote = "insert" \/ c.upsertError = "insert")

HasRedirect(c, r) == \E i \in 1..Len(c.redirects) : c.redirects[i] = r

\* C1: in every reachable state, after any interleaving of OAuth callbacks
\* and disconnects, the credential store holds at most one row per
\* (user, provider) pair.
C1_AtMostOneRowPerUserProvider ==
    \A r1 \in store, r2 \in store :
        (r1.user_id = r2.user_id /\ r1.provider = r2.provider) => r1 = r2

\* C1 witness: two callbacks of one user raced on the insert, one of them
\* was rejected, and the user's row is in the store.
C1_Witness ==
    \E p \in CallbackIds, q \in CallbackIds :
        /\ p # q
        /\ cb[p].userId = cb[q].userId
        /\ cb[p].wrote = "insert"
        /\ cb[q].upsertError = "insert" /\ ~cb[q].dbFault
        /\ disconnects = 1
        /\ RowsOf(store, cb[p].userId, "notion") # {}

\* C2 (as claimed): when two upsertNotionToken calls of one user both
\* observe no existing row, the one whose insert the uniqueness constraint
\* rejects falls back to the update: both return a credential without
\* error and neither callback ends with error=storage_failed.
C2_RaceFallsBackToUpdate ==
    \A p \in CallbackIds, q \in CallbackIds :
        ( /\ p # q
          /\ cb[p].userId = cb[q].userId
          /\ cb[p].userId \in Profiles
          /\ ObservedNoRow(cb[p]) /\ ObservedNoRow(cb[q])
          /\ ~cb[p].dbFault /\ ~cb[q].dbFault )
        => /\ cb[p].result # NoRow /\ cb[q].result # NoRow
           /\ cb[p].upsertError = "none" /\ cb[q].upsertError = "none"
           /\ ~HasRedirect(cb[p], RedirectError("storage_failed"))
           /\ ~HasRedirect(cb[q], RedirectError("storage_failed"))

\* C3: two upsertNotionToken calls in sequence for one user (the second
\* found the row as the first left it, and nothing wrote it since) leave
\* exactly one row, with the token and workspace fields of the second call,
\* the creation timestamp the first call left and the update timestamp of
\* the second call's write.
C3_SecondUpsertWins ==
    \A p1 \in CallbackIds, p2 \in CallbackIds :
        LET c1 == cb[p1]
            c2 == cb[p2]
            rows == RowsOf(store, c2.userId, "notion")
        IN  ( /\ p1 # p2
              /\ c1.wrote # "none" /\ c2.wrote # "none"
              /\ c1.userId = c2.userId
              /\ c2.sawWriter = p1
              /\ lastWriter[c2.userId] = p2 )
            => /\ Cardinality(rows) = 1
               /\ \A r \in rows :
                    /\ r.access_token = c2.input.accessToken
                    /\ r.refresh_token = OrNull(c2.input.refreshToken)
                    /\ r.workspace_name = OrNull(c2.input.workspaceName)
                    /\ r.workspace_id = OrNull(c2.input.workspaceId)
                    /\ r.created_at = c1.result.created_at
                    /\ (c1.wrote = "insert" => r.created_at = c1.wroteAt)
                    /\ r.updated_at = c2.wroteAt
                    /\ r.updated_at >= c1.wroteAt

\* C3 witness: the first call inserted at one instant, the second wrote
\* other field values at a later instant.
C3_Witness ==
    \E p1 \in CallbackIds, p2 \in CallbackIds :
        /\ p1 # p2
        /\ cb[p1].wrote = "insert" /\ cb[p2].wrote = "update"
        /\ cb[p2].sawWriter = p1
        /\ lastWriter[cb[p2].userId] = p2
        /\ cb[p1].wroteAt < cb[p2].wroteAt
        /\ cb[p1].input.workspaceName # cb[p2].input.workspaceName
        /\ cb[p1].input.refreshToken # cb[p2].input.refreshToken

\* The text after the first ':' of a state string.
RECURSIVE AfterFirstColon(_)
AfterFirstColon(s) ==
    IF s = <<>> THEN <<>>
    ELSE IF Head(s) = ":" THEN Tail(s)
    ELSE AfterFirstColon(Tail(s))

\* A state parameter that is missing, empty, without ':' or with an empty
\* user-identifier segment.
UnparseableState(state) ==
    \/ state = Undefined
    \/ /\ IsString(state)
       /\ \/ \A i \in 1..Len(state) : state[i] # ":"
          \/ AfterFirstColon(state) = <<>>

\* C4: a callback whose state is missing, empty, has no ':' or has an empty
\* user segment ends with error=invalid_state, sends no token-exchange
\* request and writes or changes no credential row.
C4_UnparseableStateRejected ==
    \A p \in CallbackIds :
        (cb[p].pc # "idle" /\ UnparseableState(cb[p].state))
        => /\ cb[p].pc = "done"
           /\ cb[p].redirects = <<RedirectError("invalid_state")>>
           /\ cb[p].exchanges = 0
           /\ cb[p].tokenStatus = "none"
           /\ WroteNothing(cb[p])

\* C4 witness: a callback with a state without delimiter was answered, a
\* credential of the seed data being in the store.
C4_Witness ==
    \E p \in CallbackIds :
        /\ cb[p].pc = "done"
        /\ cb[p].state = <<"n">>
        /\ cb[p].code = <<"k">>
        /\ store # {}

\* C5 (as claimed): a state token issued by OAuth start is consumed exactly
\* once: a callback carrying a state that an earlier callback has already
\* been processed with performs no token exchange and no credential write.
C5_StateConsumedOnce ==
    \A p \in CallbackIds :
        cb[p].replay => (cb[p].exchanges = 0 /\ WroteNothing(cb[p]))

\* C5 (amended): the state token is not consumed: a callback carrying an
\* issued state that an earlier callback has already been processed with,
\* a code and no provider error, sends one token-exchange request again,
\* and when it ends with connected=notion it has written the credential of
\* the user in the state.
C5_ReplayedStateProcessedAgain ==
    \A p \in CallbackIds :
        LET c == cb[p]
        IN  ( /\ c.replay
              /\ Truthy(c.code) /\ c.code # NonString
              /\ ~Truthy(c.err) )
            => /\ c.exchanges = 1
               /\ c.userId = AfterFirstColon(c.state)
               /\ (HasRedirect(c, RedirectConnected)
                     => /\ c.wrote # "none"
                        /\ c.result.user_id = c.userId)

\* C5 witness: a callback carrying an already processed state has written
\* the credential.
C5_Witness ==
    \E p \in CallbackIds :
        /\ cb[p].replay
        /\ cb[p].wrote = "update"
        /\ HasRedirect(cb[p], RedirectConnected)

\* The handler of callback p can take a step.
CallbackCanStep(p) ==
    \/ cb[p].pc = "fetch"
    \/ ENABLED UpsertSelect(p, TRUE)
    \/ ENABLED UpsertUpdate(p, TRUE)
    \/ ENABLED UpsertInsert(p, TRUE)

\* C6: every execution of the callback handler, whatever the query and
\* whichever of token exchange, response parsing, encryption or storage
\* fails or throws, ends with exactly one redirect, carrying connected=notion
\* or one of the six error reasons; before its end it has answered nothing
\* and it can always go on.
C6_CallbackAlwaysRedirectsOnce ==
    \A p \in CallbackIds :
        LET c == cb[p]
        IN  /\ c.pc = "done"
               => /\ Len(c.redirects) = 1
                  /\ \/ c.redirects[1] = RedirectConnected
                     \/ /\ c.redirects[1].kind = "error"
                        /\ c.redirects[1].reason \in ErrorReasons
            /\ c.pc # "done" => c.redirects = <<>>
            /\ c.pc \notin {"idle", "done"} => CallbackCanStep(p)

\* C6 witness: a callback whose storage call failed was answered
\* storage_failed.
C6_Witness ==
    \E p \in CallbackIds :
        /\ cb[p].pc = "done"
        /\ cb[p].dbFault
        /\ cb[p].redirects = <<RedirectError("storage_failed")>>

PlainTokens ==
    {d.access_token : d \in TokenResponses} \cup
    {d.refresh_token : d \in TokenResponses}

PlainOf(v) == IF IsString(v) THEN v ELSE EmptyString

\* C8: every access-token and refresh-token value of a row written by the
\* OAuth callback is the output of encrypt under the process key, applied
\* to the token the provider returned; the plaintext token is never in the
\* store.
C8_StoredTokensEncrypted ==
    \A r \in store :
        /\ r.access_token \notin PlainTokens
        /\ r.refresh_token \notin PlainTokens \ {Undefined}
        /\ r.user_id \in Profiles
        /\ lastWriter[r.user_id] # 0
           => LET d == cb[lastWriter[r.user_id]].tokenData
              IN  /\ IsCiphertextUnder(r.access_token, ENCRYPTION_KEY)
                  /\ \E s \in Salts :
                        r.access_token =
                            Encrypt(PlainOf(d.access_token), ENCRYPTION_KEY, s)
                  /\ \/ r.refresh_token = Null /\ ~Truthy(d.refresh_token)
                     \/ \E s \in Salts :
                           r.refresh_token =
                               Encrypt(d.refresh_token, ENCRYPTION_KEY, s)

\* C8 witness: a row written by a callback that holds an access and a
\* refresh token.
C8_Witness ==
    \E r \in store :
        /\ lastWriter[r.user_id] # 0
        /\ r.refresh_token # Null

\* C9: an export of a non-public template requested by a user who is not
\* its owner ends with AccessDenied; in that execution no credential is
\* loaded or decrypted, the external document API is not called and the
\* usage count is not changed.
C9_PrivateTemplateExportDenied ==
    \A e \in ExportIds :
        LET x == ex[e]
        IN  ( /\ x.template # NoTemplate
              /\ ~x.template.is_public
              /\ x.template.user_id # x.userId )
            => /\ x.pc = "done"
               /\ x.response = ExportResponse(403, "Access denied")
               /\ x.credentialLoads = 0 /\ x.integration = NoRow
               /\ x.decrypts = 0 /\ x.token = Undefined
               /\ x.notionCalls = 0
               /\ x.increments = 0

\* C9 witness: a user with a stored credential was denied the export of
\* another user's private template.
C9_Witness ==
    \E e \in ExportIds :
        /\ ex[e].pc = "done"
        /\ ex[e].id = "t1"
        /\ ex[e].userId = <<"b">>
        /\ ex[e].template # NoTemplate
        /\ RowsOf(store, <<"b">>, "notion") # {}

\* C10: an export by a user who has no stored credential, its template
\* check and authorization passed, ends with CredentialMissing; no
\* decryption is attempted and the external document API is not called.
C10_NoCredentialExportStops ==
    \A e \in ExportIds :
        LET x == ex[e]
        IN  x.loadOutcome = "absent"
            => /\ x.pc = "done"
               /\ x.response = ExportResponse(400, "Notion integration not found")
               /\ x.decrypts = 0 /\ x.token = Undefined
               /\ x.notionCalls = 0
               /\ x.increments = 0

\* C10 witness: the export of a public template by a user whose credential
\* a disconnect had removed.
C10_Witness ==
    \E e \in ExportIds :
        /\ ex[e].loadOutcome = "absent"
        /\ ex[e].template.is_public
        /\ ex[e].userId = <<"a">>
        /\ disconnects = 1

\* C11: when the stored access-token ciphertext cannot be decrypted under
\* the process key, the decryption is a detectable failure and no string
\* of it is used as an access token: the export ends with
\* CredentialCorrupted, does not call the external document API, does not
\* change the usage count and decrypts once only.
C11_UndecryptableCredentialStopsExport ==
    \A e \in ExportIds :
        LET x == ex[e]
        IN  ( /\ x.decrypts > 0
              /\ ~IsCiphertextUnder(x.integration.access_token,
                                    ENCRYPTION_KEY) )
            => /\ x.pc = "done"
               /\ x.response \in
                    {ExportResponse(500, "Failed to decrypt access token"),
                     ExportResponse(500, "Failed to export template")}
               /\ x.token = Undefined
               /\ x.notionCalls = 0
               /\ x.increments = 0
               /\ x.decrypts = 1

\* C12: when the document-creation call of an export succeeded and the
\* usage-count increment after it failed, the export still ends with the
\* success response carrying the external resource identifier and the
\* mode.
C12_IncrementFailureKeepsSuccess ==
    \A e \in ExportIds :
        LET x == ex[e]
        IN  (x.notionOk /\ x.incrementResult = "failure")
            => /\ x.pc = "done"
               /\ x.response = ExportResponse(200, "none")
               /\ x.data = [notionResourceId |-> x.notionResourceId,
                            mode |-> x.body.mode]
               /\ x.data.notionResourceId \in NotionPageIds
               /\ x.data.mode \in {"page", "database"}

\* C12 witness: an export in database mode answered after a failed
\* increment.
C12_Witness ==
    \E e \in ExportIds :
        /\ ex[e].pc = "done"
        /\ ex[e].notionOk
        /\ ex[e].incrementResult = "failure"
        /\ ex[e].body.mode = "database"

\* C13: N concurrent incrementUsageCount calls on a template whose usage
\* count was 0 leave the count at exactly N, in every interleaving (the
\* store answering every request).
C13_ConcurrentIncrementsAllCounted ==
    (\A i \in IncrementIds : inc[i].pc = "done" /\ ~inc[i].dbFault)
        => \A t \in TemplateIds :
              usage[t] = Cardinality({i \in IncrementIds : inc[i].id = t})

\* C14: the usage count of a template has gone up by exactly one for each
\* export of it whose document-creation call succeeded, and an export that
\* ended in a failure has left it unchanged (the store answering every
\* increment request).
C14_UsageCountsSuccessfulExports ==
    (\A e \in ExportIds : ~ex[e].incrementFault)
        => \A t \in TemplateIds :
              usage[t] = Cardinality({e \in ExportIds :
                                         /\ ex[e].id = t
                                         /\ ex[e].pc = "done"
                                         /\ ex[e].notionOk})

\* The failure kind the response of a failed export stands for.
KindOfResponse(r) ==
    IF r = ExportResponse(404, "Template not found") THEN "TemplateNotFound"
    ELSE IF r = ExportResponse(403, "Access denied") THEN "AccessDenied"
    ELSE IF r = ExportResponse(400, "Notion integration not found")
    THEN "CredentialMissing"
    ELSE IF r \in {ExportResponse(500, "Failed to decrypt access token"),
                   ExportResponse(500, "Failed to export template")}
    THEN "CredentialCorrupted"
    ELSE IF r = ExportResponse(500, "Failed to export to Notion")
    THEN "ExternalApiError"
    ELSE "none"

\* The failure kind that occurred in the finished export x, from the first
\* step of the sequence that could not be done.
KindOccurred(x) ==
    IF x.templateOutcome = "absent" THEN "TemplateNotFound"
    ELSE IF x.template # NoTemplate /\ ~x.template.is_public
            /\ x.template.user_id # x.userId
    THEN "AccessDenied"
    ELSE IF x.loadOutcome = "absent" THEN "CredentialMissing"
    ELSE IF x.loadOutcome = "found"
            /\ \/ ~IsCiphertextUnder(x.integration.access_token,
                                     ENCRYPTION_KEY)
               \/ DecryptOutcomes(x.integration.access_token,
                                  ENCRYPTION_KEY) = {EmptyString}
    THEN "CredentialCorrupted"
    ELSE IF x.notionCalls = 1 /\ ~x.notionOk THEN "ExternalApiError"
    ELSE "none"

\* C15: every failed export (its request well-formed, the store answering
\* every read) ends in exactly one of the five failure kinds, and its
\* response is the response of the kind that occurred, the responses of
\* two different kinds being different.
C15_FailureKindTold ==
    \A e \in ExportIds :
        LET x == ex[e]
        IN  ( /\ x.pc = "done"
              /\ x.response.status # 200
              /\ ValidExportBody(x.body)
              /\ x.templateOutcome # "error"
              /\ x.loadOutcome # "error" )
            => /\ KindOccurred(x) # "none"
               /\ KindOfResponse(x.response) = KindOccurred(x)

\* C16: a storage failure other than row-not-found while loading the
\* template or the credential is kept distinct from not-found: an export
\* answers TemplateNotFound or CredentialMissing, and the status endpoint
\* answers "not connected", only when the row is absent.
C16_StorageErrorNotReportedAsNotFound ==
    /\ \A e \in ExportIds :
          /\ ex[e].response = ExportResponse(404, "Template not found")
                => ex[e].templateOutcome = "absent"
          /\ ex[e].response = ExportResponse(400, "Notion integration not found")
                => ex[e].loadOutcome = "absent"
    /\ \A s \in StatusIds :
          (statusReq[s].pc = "done" /\ ~statusReq[s].data.connected)
                => statusReq[s].loadOutcome = "absent"

\* The removal r met no storage fault and its provider argument was valid.
RemovalServed(r) == ~r.fault /\ ValidProvider(r.provider)

\* C17: credential removal is idempotent. A removeIntegration call for a
\* pair with no stored credential returns success and leaves the store
\* unchanged; a second call in a row returns the same result and leaves
\* the same store as the first; after a removal the pair has no credential,
\* and the credential of a user stays absent until a callback ends with
\* "connected" for that user.
C17_RemovalIdempotent ==
    /\ [](\A i \in 1..Len(removals) :
            LET r == removals[i]
                name == ProviderText(r.provider)
            IN  RemovalServed(r)
                => /\ r.success
                   /\ RowsOf(r.after, r.userId, name) = {}
                   /\ RowsOf(r.before, r.userId, name) = {}
                         => r.after = r.before
                   /\ \A j \in 1..Len(removals) :
                         ( /\ j = i + 1
                           /\ RemovalServed(removals[j])
                           /\ removals[j].userId = r.userId
                           /\ removals[j].provider = r.provider
                           /\ removals[j].before = r.after )
                         => /\ removals[j].success = r.success
                            /\ removals[j].after = r.after)
    /\ [][\A u \in Profiles :
            ( /\ RowsOf(store, u, "notion") = {}
              /\ RowsOf(store', u, "notion") # {} )
            => \E p \in CallbackIds :
                  /\ cb[p].pc # "done" /\ cb'[p].pc = "done"
                  /\ cb'[p].userId = u
                  /\ HasRedirect(cb'[p], RedirectConnected)]_vars

\* C17 witness: a user's credential was removed and the removal was called
\* a second time right after it.
C17_Witness ==
    /\ Len(removals) = 2
    /\ RemovalServed(removals[1]) /\ RemovalServed(removals[2])
    /\ removals[1].userId = removals[2].userId
    /\ removals[1].provider = <<"n">> /\ removals[2].provider = <<"n">>
    /\ RowsOf(removals[1].before, removals[1].userId, "notion") # {}
    /\ removals[2].before = removals[1].after
    /\ removals[2].success

\* Literal substitution, the reference of the claims on interpolation:
\* every occurrence of the text needle in s from pos on becomes value.
RECURSIVE LiteralReplaceAll(_, _, _, _)
LiteralReplaceAll(s, pos, needle, value) ==
    IF pos > Len(s) THEN <<>>
    ELSE IF pos + Len(needle) - 1 <= Len(s)
            /\ SubSeq(s, pos, pos + Len(needle) - 1) = needle
    THEN value \o LiteralReplaceAll(s, pos + Len(needle), needle, value)
    ELSE <<s[pos]>> \o LiteralReplaceAll(s, pos + 1, needle, value)

\* The placeholder of each entry in turn, from entry i on.
RECURSIVE LiteralInterpolate(_, _, _)
LiteralInterpolate(content, entries, i) ==
    IF i > Len(entries) THEN content
    ELSE LiteralInterpolate(
             LiteralReplaceAll(content, 1, Placeholder(entries[i].key),
                               entries[i].value),
             entries, i + 1)

Letters ==
    {"a", "b", "c", "d", "e", "f", "g", "h", "i", "j", "k", "l", "m", "n",
     "o", "p", "q", "r", "s", "t", "u", "v", "w", "x", "y", "z"}

\* The key is an identifier: a letter, then letters and digits.
IdentifierKey(key) ==
    /\ Len(key) >= 1 /\ key[1] \in Letters
    /\ \A k \in 1..Len(key) : key[k] \in Letters \cup Digits

\* The value holds no "$".
PlainValue(value) == \A k \in 1..Len(value) : value[k] # "$"

InterpolationOver == ip.pc \in {"done", "thrown"}

HelloName ==
    <<"H", "e", "l", "l", "o", " ", "{", "{", "n", "a", "m", "e", "}", "}",
      "!">>

C19_KeysMatchedLiterally ==
    ( /\ InterpolationOver
      /\ \A k \in 1..Len(ip.entries) : PlainValue(ip.entries[k].value) )
    => /\ ip.pc = "done"
       /\ ip.content = LiteralInterpolate(ip.body, ip.entries, 1)

\* C20: for every value, values with "$" sequences included, the text
\* that replaces {{key}} in the rendered body is variables[key] character
\* for character (keys that are identifiers).
C20_ValuesInsertedVerbatim ==
    ( /\ InterpolationOver
      /\ \A k \in 1..Len(ip.entries) : IdentifierKey(ip.entries[k].key) )
    => /\ ip.pc = "done"
       /\ ip.content = LiteralInterpolate(ip.body, ip.entries, 1)

\* C21: the user id the callback parses out of a state issued by OAuth
\* start for u is u; the parsing splits at the first ':' only, so the user
\* id of any state is the whole text after its first ':'; the states "",
\* ":" and a state without ':' are rejected.
C21_StateRoundTripFirstColon ==
    /\ \A s \in issued, u \in Profiles, n \in Nonces :
          s = IssueState(n, u) => ParsedUserId(s) = u
    /\ \A p \in CallbackIds :
          (cb[p].pc # "idle" /\ IsString(cb[p].state))
          => IF UnparseableState(cb[p].state)
             THEN cb[p].redirects = <<RedirectError("invalid_state")>>
             ELSE cb[p].userId = AfterFirstColon(cb[p].state)

C23_OneCreationCallWithModeParent ==
    \A e \in ExportIds :
        /\ ex[e].notionCalls <= 1
        /\ ex[e].notionCalls = 1 =>
              /\ ex[e].body.mode = "page" =>
                    ex[e].notionParent = [type |-> "page_id",
                                          id |-> ex[e].body.targetId]
              /\ ex[e].body.mode = "database" =>
                    ex[e].notionParent = [type |-> "database_id",
                                          id |-> ex[e].body.targetId]
        /\ (ex[e].pc = "done" /\ ex[e].notionCalls = 1 /\ ~ex[e].notionOk)
              => KindOfResponse(ex[e].response) = "ExternalApiError"

\* C23 witness: an export in mode database whose one creation call failed.
C23_Witness ==
    \E e \in ExportIds :
        /\ ex[e].pc = "done"
        /\ ex[e].body.mode = "database"
        /\ ex[e].notionCalls = 1
        /\ ~ex[e].notionOk
        /\ ex[e].notionParent.type = "database_id"

\* C24: GET /api/templates/search is handled by the search handler and
\* GET /api/templates/my by the user's-templates handler; neither is
\* handled by the get-by-id handler.
C24_SearchAndMyReachTheirHandlers ==
    \A k \in 1..Len(served) :
        served[k].method = "GET" =>
            /\ served[k].path = <<"search">> => served[k].handler = "search"
            /\ served[k].path = <<"my">> => served[k].handler = "my"
            /\ served[k].path \in {<<"search">>, <<"my">>}
                  => served[k].handler # "getById"

\* The template of a received export is private and not the requester's.
PrivateOfAnother(x) ==
    \E t \in Templates :
        t.id = x.id /\ ~t.is_public /\ t.user_id # x.userId

\* C25: an export checks template existence, authorization, credential
\* presence, decryption and only then calls the external API, and reports
\* the first check that fails: a missing template is TemplateNotFound
\* whatever the credential state, and a private template of another user
\* is AccessDenied even when the requester has no credential.
C25_ChecksInFixedOrder ==
    \A e \in ExportIds :
        (ex[e].pc # "idle" /\ ValidExportBody(ex[e].body)) =>
            /\ ex[e].credentialLoads > 0 =>
                  (ex[e].templateOutcome = "found" /\ ~PrivateOfAnother(ex[e]))
            /\ ex[e].decrypts > 0 => ex[e].loadOutcome = "found"
            /\ ex[e].notionCalls > 0 =>
                  (ex[e].decrypts > 0 /\ Truthy(ex[e].token))
            /\ (ex[e].pc = "done" /\ ex[e].templateOutcome = "absent") =>
                  /\ KindOfResponse(ex[e].response) = "TemplateNotFound"
                  /\ ex[e].credentialLoads = 0
            /\ (ex[e].pc = "done" /\ ex[e].templateOutcome = "found"
                /\ PrivateOfAnother(ex[e])) =>
                  /\ KindOfResponse(ex[e].response) = "AccessDenied"
                  /\ ex[e].credentialLoads = 0

\* C25 witness: a user without a credential was refused the private
\* template of another user.
C25_Witness ==
    \E e \in ExportIds :
        /\ ex[e].pc = "done"
        /\ PrivateOfAnother(ex[e])
        /\ RowsOf(store, ex[e].userId, "notion") = {}
        /\ ex[e].response = ExportResponse(403, "Access denied")

\* Nonce segments: empty, the one OAuth start issues, and others.
NonceVariants == {EmptyString, <<"n">>, <<"m">>, <<"z", "z">>}

\* The state with its nonce segment replaced.
WithNonce(n, state) == n \o <<":">> \o AfterFirstColon(state)

\* The branch a received callback took before the token exchange.
BranchTaken(c) ==
    IF c.exchanges = 0 THEN c.redirects[1].reason ELSE "proceed"

\* C26: the outcome of a callback does not depend on the nonce segment of
\* its state: with any other nonce segment, empty or never issued, and the
\* same non-empty user segment the callback takes the same branch and
\* writes the credential under the same user id.
C26_OutcomeIndependentOfNonce ==
    \A p \in CallbackIds, n \in NonceVariants :
        (cb[p].pc # "idle" /\ IsString(cb[p].state)
         /\ Truthy(ParsedUserId(cb[p].state))) =>
            LET other == WithNonce(n, cb[p].state)
            IN  /\ CallbackGuards(other, cb[p].code, cb[p].err)
                      = BranchTaken(cb[p])
                /\ ParsedUserId(other) = cb[p].userId
                /\ \A u \in Profiles :
                      lastWriter[u] = p => ParsedUserId(other) = u

\* C26 witness: a callback whose state has an empty nonce segment, which
\* OAuth start never issues, has connected its user.
C26_Witness ==
    \E p \in CallbackIds :
        /\ cb[p].pc = "done"
        /\ cb[p].state = <<":", "a">>
        /\ cb[p].state \notin issued
        /\ cb[p].redirects = <<RedirectConnected>>
        /\ lastWriter[<<"a">>] = p
        /\ RowsOf(store, <<"a">>, "notion") # {}

\* The credentials of the users other than u.
RowsOfOthers(rows, u) == {r \in rows : r.user_id # u}

\* The step is the storage write of callback p: after a 2xx answer of the
\* token endpoint, under the user segment of its state, the rows of the
\* other users as they were.
CallbackWrite(p) ==
    /\ cb[p].pc \in {"update", "insert"}
    /\ cb'[p].pc = "done"
    /\ cb[p].tokenStatus = "ok"
    /\ cb[p].userId = ParsedUserId(cb[p].state)
    /\ RowsOfOthers(store', cb[p].userId) = RowsOfOthers(store, cb[p].userId)
    /\ RowsOf(store', cb[p].userId, "notion") # {}

\* The step belongs to OAuth start, status, connection test or export.
ReadOnlyEndpointStep ==
    issued' # issued \/ statusReq' # statusReq \/ tst' # tst \/ ex' # ex

\* C27: only the OAuth callback and disconnect modify the credential
\* store; a callback writes only after a 2xx token exchange and only under
\* the user id of its state, leaving the other users' credentials as they
\* were; OAuth start, status, connection test and export never create,
\* change or delete a credential.
C27_OnlyCallbackAndDisconnectWrite ==
    [][ /\ store' # store =>
              \/ disconnects' = disconnects + 1
              \/ \E p \in CallbackIds : CallbackWrite(p)
        /\ ReadOnlyEndpointStep => store' = store ]_vars

\* C27 witness: the callback has stored a credential for b next to the
\* credential of a, and status, connection test and export have been
\* served for b.
C27_Witness ==
    /\ lastWriter[<<"b">>] = 1
    /\ RowsOf(store, <<"b">>, "notion") # {}
    /\ RowsOf(store, <<"a">>, "notion") # {}
    /\ tst.pc = "done" /\ tst.userId = <<"b">> /\ tst.status = 200
    /\ \E s \in StatusIds :
          statusReq[s].pc = "done" /\ statusReq[s].userId = <<"b">>
    /\ \E e \in ExportIds :
          ex[e].pc = "done" /\ ex[e].userId = <<"b">> /\ ex[e].notionOk

\* C28: the document-creation call of an export carries the access token
\* decrypted from the credential row of the requesting user; an export of
\* another user's public template reads no credential but the requester's.
C28_ExportUsesRequestersCredential ==
    \A e \in ExportIds :
        /\ ex[e].integration # NoRow =>
              /\ ex[e].integration.user_id = ex[e].userId
              /\ ex[e].integration.provider = "notion"
        /\ ex[e].notionCalls > 0 =>
              /\ ex[e].integration # NoRow
              /\ ex[e].token \in DecryptOutcomes(ex[e].integration.access_token,
                                                 ENCRYPTION_KEY)

\* C28 witness: b has exported the public template of a with the token of
\* b's credential while a has a credential too.
C28_Witness ==
    \E e \in ExportIds :
        /\ ex[e].notionOk
        /\ ex[e].userId = <<"b">>
        /\ ex[e].template.user_id = <<"a">>
        /\ ex[e].template.is_public
        /\ ex[e].integration.user_id = <<"b">>
        /\ RowsOf(store, <<"a">>, "notion") # {}

\* The entries whose placeholder stands at position pos of s.
EntriesAt(s, pos, entries) ==
    {k \in 1..Len(entries) :
        LET ph == Placeholder(entries[k].key)
        IN  /\ pos + Len(ph) - 1 <= Len(s)
            /\ SubSeq(s, pos, pos + Len(ph) - 1) = ph}

\* One pass over the original body from position pos on: a placeholder of
\* the variables is replaced by its value, which is not looked at again.
RECURSIVE SinglePass(_, _, _)
SinglePass(s, pos, entries) ==
    IF pos > Len(s) THEN <<>>
    ELSE IF EntriesAt(s, pos, entries) # {}
    THEN LET k == CHOOSE l \in EntriesAt(s, pos, entries) :
                      \A j \in EntriesAt(s, pos, entries) : l <= j
         IN  entries[k].value
             \o SinglePass(s, pos + Len(Placeholder(entries[k].key)), entries)
    ELSE <<s[pos]>> \o SinglePass(s, pos + 1, entries)

\* The entries in the opposite order.
Reversed(entries) ==
    [k \in 1..Len(entries) |-> entries[Len(entries) + 1 - k]]

\* C29: interpolation is a single pass over the original body: a
\* placeholder inside a substituted value is not substituted, and the
\* result is the same for every order of the variables (keys that are
\* identifiers, values without "$"); the body "{{a}}" with a "{{b}}" and b
\* "x" renders as "{{b}}".
C29_SinglePassOrderIndependent ==
    (/\ InterpolationOver
     /\ \A k \in 1..Len(ip.entries) :
           IdentifierKey(ip.entries[k].key) /\ PlainValue(ip.entries[k].value))
    => /\ ip.pc = "done"
       /\ ip.content = SinglePass(ip.body, 1, ip.entries)
       /\ ip.content = Interpolate(ip.body, Reversed(ip.entries), 1)

\* The state of callback c, a string or absent, has a non-empty second
\* segment.
HasUserSegment(c) ==
    /\ c.state # NonString
    /\ LET segs == StateSegments(c.state)
       IN  Len(segs) >= 2 /\ Len(segs[2]) >= 1

\* C30: the callback tests state, provider error and code in this order,
\* then exchanges the code, then stores: with a provider error it ends
\* with oauth_failed only when its state has a non-empty user segment and
\* with invalid_state otherwise, with a provider error and no code it ends
\* with oauth_failed and not missing_code, and in these cases the token
\* endpoint is not called.
C30_GuardOrder ==
    \A p \in CallbackIds :
        LET c == cb[p]
        IN  c.pc # "idle" =>
              /\ (Truthy(c.err) /\ c.state # NonString /\ ~HasUserSegment(c))
                    => /\ c.redirects = <<RedirectError("invalid_state")>>
                       /\ c.exchanges = 0
              /\ (Truthy(c.err) /\ HasUserSegment(c))
                    => /\ c.redirects = <<RedirectError("oauth_failed")>>
                       /\ c.exchanges = 0
              /\ c.redirects = <<RedirectError("oauth_failed")>>
                    => (Truthy(c.err) /\ HasUserSegment(c))
              /\ c.redirects = <<RedirectError("missing_code")>>
                    => /\ HasUserSegment(c) /\ ~Truthy(c.err)
                       /\ c.exchanges = 0
              /\ c.state = NonString
                    => /\ c.redirects = <<RedirectError("unexpected_error")>>
                       /\ c.exchanges = 0
              /\ c.exchanges > 0
                    => /\ HasUserSegment(c) /\ ~Truthy(c.err)
                       /\ IsString(c.code) /\ Truthy(c.code)
              /\ (c.pc \in {"select", "update", "insert"} \/ c.wrote # "none")
                    => (c.exchanges = 1 /\ c.tokenStatus = "ok")

\* C30 witness: a callback with a provider error, no code and a state with
\* a user segment has ended with oauth_failed.
C30_Witness ==
    \E p \in CallbackIds :
        /\ cb[p].pc = "done"
        /\ Truthy(cb[p].err) /\ cb[p].code = Undefined
        /\ cb[p].state = <<"n", ":", "a">>
        /\ cb[p].redirects = <<RedirectError("oauth_failed")>>
        /\ cb[p].exchanges = 0

====
